---- MODULE Spec2Model ----
(***************************************************************************)
(* Model of the Ecophil scraper's row cache (app/utils/cache/row_cache.py), *)
(* the Intercommerce crawl (app/scraper/intercommerce_scraper.py) and the   *)
(* Dates window (app/models/scraper.py, app/schemas/scraper.py).            *)
(*                                                                         *)
(* Text is modelled as a tuple of one-character strings, so that the        *)
(* reference normaliser is computed rather than assumed.  A calendar date   *)
(* is the day number within 2024 (1 = 2024-01-01); its CSV form is the      *)
(* triple <<year, month, day>> that write_csv prints as YYYY-MM-DD.         *)
(*                                                                         *)
(* A Row carries eight fields; reference_number, status and creation_date  *)
(* are the ones the cache and the crawl read.  The other five are text      *)
(* columns that are only copied, exactly like status, and are left out.     *)
(***************************************************************************)
EXTENDS Integers, Sequences, FiniteSets, TLC

VARIABLES
    store,        \* rows.csv of the save directory: [exists, rows]
    calls,        \* number of cache API calls made so far (SpecCache)
    lastCall,     \* the last cache API call: [op, key]
    lastExc,      \* what the last cache API call raised ("" = returned)
    appended,     \* ghost: Rows whose cache_row call returned, since the store was absent
    clean,        \* ghost: only cache_row calls with pairwise distinct keys so far
    lastRet,      \* what the last cache API call returned: [kind, refs, flag]
    prevStore,    \* ghost: the store as the last cache API call found it
    pc,           \* crawl_database: "start", "load", "scan", "done" (returned), "raised"
    exc,          \* the exception crawl_database raised ("" = none)
    dates,        \* the Dates window of the crawl session
    offset,       \* crawl_database's page offset
    rowId,        \* _process_rows' row_id
    cur,          \* _process_rows' local `row`: [bound, row]
    requests,     \* ghost: listing pages requested so far
    scanned,      \* ghost: rows whose cells were read so far
    lastClass,    \* ghost: what the window rule makes of the last row read
    lastDate,     \* ghost: creation_date of the last row parsed
    sorted,       \* ghost: the rows parsed so far came strictly newest-first
    belowSeen,    \* ghost: a row with creation_date < start_date was parsed
    timedOut,     \* ghost: a wait on the listing timed out
    startedEmpty, \* ghost: the crawl started with no rows.csv
    login,        \* ghost: what the login attempt met: [done, loads, frmCreate, incorrectPassword]
    attempts,     \* ghost: number of login forms submitted
    dModule,      \* Dates(...): the module whose Dates class is constructed
    dStart,       \* Dates(...): the start_date given
    dEnd,         \* Dates(...): the end_date given
    dResult,      \* Dates(...): "none" (not run yet), "ok" or "ValidationError"
    nRaw,         \* normaliser: a raw reference_number
    nOther,       \* normaliser: nRaw with one more hyphen or one more outer blank
    nOut,         \* normaliser: the normalised nRaw
    nOutOther,    \* normaliser: the normalised nOther
    nAgain,       \* normaliser: nOut normalised once more
    nStep,        \* normaliser: 0 = not run, 1 = normalised, 2 = normalised again
    pArray,       \* Row.from_array: the cell array given
    pResult,      \* Row.from_array: [done, exc, row]
    rPc,          \* _process_documents: "start", "loop", "done" (returned), "raised"
    rExc,         \* the exception _process_documents raised ("" = none)
    rRefs,        \* the Series the for loop iterates
    rIdx,         \* number of references the loop has taken so far
    rIn,          \* ghost: what the site served for the reference taken last
    rRaised,      \* ghost: what the try block raised for that reference ("" = nothing)
    rFetched,     \* ghost: _get_release_status was called for that reference
    rRemoved,     \* ghost: references the except clause removed from rows.csv
    emitted,      \* release records the pass has produced
    wModule,      \* Driver: the module of the class, "driver" or "scraper"
    wPc,          \* Driver: "out" of the with-block or "in" it
    wSelf,        \* Driver: the attributes of the Driver object of the current use
    wTimeout,     \* Driver: its wait argument
    wBrowsers,    \* Driver: one entry per Chrome created, "running" or "quit"
    wLeft,        \* Driver: the exception the last with-block was left by ("" = none)
    wUses,        \* Driver: number of with-blocks entered
    listing,      \* rerun: the rows of the listing, newest first
    run,          \* rerun: 1 or 2, the crawl_database call in progress
    store1,       \* rerun ghost: the store after the first call
    saveDirs,     \* rerun: the save directory of each call so far
    sPage,        \* _get_release_status: the document page
    sResult,      \* _get_release_status: [done, exc, status]
    qPc,          \* sessions: where each session is in cache_row
    qRow,         \* sessions: the Row each session is caching
    qOld,         \* sessions: old_cache, the frame each session loaded
    qCalls,       \* sessions: number of cache_row calls each session has begun
    acked,        \* ghost: keys whose cache_row call returned without raising
    overlapped,   \* ghost: a session took a step while another was inside cache_row
    vPc,          \* download_data: "start", "try", "download", "returned", "raised"
    vStep,        \* download_data: page interactions of the try block passed so far
    vExc,         \* the exception download_data raised ("" = none)
    vTimedOut,    \* ghost: a page wait of the try block timed out
    vElapsed,     \* wait_for_download: time.time() - start_time, in seconds
    vFile,        \* PointsTransactions.csv exists in DATA_DIR
    vRet,         \* what wait_for_download returned: "none" (not yet), "True", "False"
    vSeenAt,      \* ghost: the elapsed time at which a poll found the file (-1 = none did)
    vMoved,       \* the export was moved into the save directory
    bPc,          \* Scraper.crawl_database: "login", "loop", "returned", "raised"
    bExc,         \* the exception Scraper.crawl_database raised ("" = none)
    bDates,       \* its dates argument
    bRowId,       \* its row_id
    bRow,         \* its row_data
    bDid,         \* ghost: what it did with the last row: "none", "timeout", "error",
                  \* "skipped", "stopped" or "scraped"
    bDoc          \* ghost: what scrape_document raised for the last row ("" = not called)

cacheOnly == <<calls, lastCall, lastExc, appended, clean, lastRet, prevStore>>

crawlOnly ==
    <<pc, exc, dates, offset, rowId, cur, requests, scanned, lastClass,
      lastDate, sorted, belowSeen, timedOut, startedEmpty, login, attempts>>

ctorOnly == <<dModule, dStart, dEnd, dResult>>

normOnly == <<nRaw, nOther, nOut, nOutOther, nAgain, nStep>>

parseOnly == <<pArray, pResult>>

reconOnly == <<rPc, rExc, rRefs, rIdx, rIn, rRaised, rFetched, rRemoved, emitted>>

driverOnly == <<wModule, wPc, wSelf, wTimeout, wBrowsers, wLeft, wUses>>

rerunOnly == <<listing, run, store1, saveDirs>>

statusOnly == <<sPage, sResult>>

raceOnly == <<qPc, qRow, qOld, qCalls, acked, overlapped>>

vbsOnly == <<vPc, vStep, vExc, vTimedOut, vElapsed, vFile, vRet, vSeenAt, vMoved>>

dbOnly == <<bPc, bExc, bDates, bRowId, bRow, bDid, bDoc>>

restOnly == <<driverOnly, rerunOnly, statusOnly, raceOnly, vbsOnly, dbOnly>>

laterOnly == <<normOnly, parseOnly, reconOnly, restOnly>>

cacheVars == <<store, cacheOnly>>

crawlVars == <<store, crawlOnly>>

vars == <<store, cacheOnly, crawlOnly, ctorOnly, laterOnly>>

\* ------------------------------------------------------------------ bounds

\* Longest sequence of cache API calls explored.
MaxCalls == 4

\* Longest raw reference_number the normaliser is run on.
MaxRefLen == 4

\* Most cache_row calls one session makes.
MaxSessionCalls == 2

\* Most rows on the listing of a repeated crawl.
MaxListing == 3

\* Most with-blocks entered one after the other.
MaxUses == 3

\* Most rows in rows.csv when a reconciliation pass starts.
MaxBatch == 3

\* Last day number of the modelled calendar range.
DayMax == 12

\* Number of pages the listing has; a request past the last page times out.
MaxPages == 2

\* The day number of date.today() when a Dates value is constructed.
Today == 10

\* ------------------------------------------------------------------ text

\* Raw reference numbers as the listing prints them.
RawRefs ==
    { <<"A", "-", "1">>, <<"A", "1", " ">>, <<"B", "2">>, <<" ", "C", "-", "3">> }

RECURSIVE LStrip(_)
LStrip(s) == IF s # <<>> /\ Head(s) = " " THEN LStrip(Tail(s)) ELSE s

RECURSIVE RStrip(_)
RStrip(s) ==
    IF s # <<>> /\ s[Len(s)] = " " THEN RStrip(SubSeq(s, 1, Len(s) - 1)) ELSE s

\* str.strip()
Strip(s) == RStrip(LStrip(s))

\* str.replace('-', '')
RemoveHyphens(s) == SelectSeq(s, LAMBDA c : c # "-")

\* A normaliser that trims before it removes the hyphens.
clean_reference_number_strip_first(reference_number) ==
    RemoveHyphens(Strip(reference_number))

\* A Row that keeps the reference number as the listing prints it.
clean_reference_number_as_printed(reference_number) == reference_number

\* Row.clean_reference_number
clean_reference_number(reference_number) == Strip(RemoveHyphens(reference_number))

\* ------------------------------------------------------------------ dates

DaysInMonth == <<31, 29, 31, 30, 31, 30, 31, 31, 30, 31, 30, 31>>

RECURSIVE DaysBefore(_)
DaysBefore(m) == IF m = 1 THEN 0 ELSE DaysBefore(m - 1) + DaysInMonth[m - 1]

RECURSIVE MonthOf(_, _)
MonthOf(d, m) == IF d <= DaysBefore(m) + DaysInMonth[m] THEN m ELSE MonthOf(d, m + 1)

\* write_csv of a Date column: YYYY-MM-DD
FormatDate(d) == LET m == MonthOf(d, 1) IN <<2024, m, d - DaysBefore(m)>>

\* A date parser that reads the day of the month and drops the month.
ParseDate_ignore_month(t) == t[3]

\* pl.col('creation_date').str.to_date('%Y-%m-%d')
ParseDate(t) == DaysBefore(t[2]) + t[3]

Days == 1 .. DayMax

\* creation dates of the rows handed to the cache API: either side of a month end.
CacheDays == {31, 32}

\* ------------------------------------------------------------------ rows

Statuses == {"AG", "XX"}

\* Row(...): the field validator normalises reference_number.
Row(raw, status, creation_date) ==
    [reference_number |-> clean_reference_number(raw),
     status |-> status,
     creation_date |-> creation_date]

\* pl.DataFrame([row]) written by write_csv: one CSV line.
CsvLine(row) ==
    [reference_number |-> row.reference_number,
     status |-> row.status,
     creation_date |-> FormatDate(row.creation_date)]

Absent == [exists |-> FALSE, rows |-> <<>>]

\* check_file('rows.csv', 'documents', save_dir, 'cache'): path.exists of the
\* path joined from DATA_DIR, the directories and the file name, which is the
\* cache_file of cache_row.
check_file(st) == st.exists

\* load_csv_file('rows.csv', save_dir): the lines of rows.csv, every column as
\* text (cache_row converts creation_date to a date itself).
load_csv_file(st) == st.rows

\* A lookup that only inspects the first line of the file.
check_reference_number_first_only(reference_number, st) ==
    st.rows # <<>> /\ st.rows[1].reference_number = reference_number

\* _check_reference_number
check_reference_number(reference_number, st) ==
    \E i \in 1 .. Len(st.rows) : st.rows[i].reference_number = reference_number

\* A cache_row that writes before it raises for a duplicate.
cache_row_write_then_raise(row, st) ==
    IF ~check_file(st)
    THEN [store |-> [exists |-> TRUE, rows |-> <<CsvLine(row)>>], exc |-> ""]
    ELSE [store |-> [exists |-> TRUE, rows |-> Append(load_csv_file(st), CsvLine(row))],
          exc |-> IF check_reference_number(row.reference_number, st)
                  THEN "CachedException" ELSE ""]

\* A cache_row that rewrites the file with the new row only.
cache_row_forget_old(row, st) ==
    IF ~check_file(st)
    THEN [store |-> [exists |-> TRUE, rows |-> <<CsvLine(row)>>], exc |-> ""]
    ELSE IF check_reference_number(row.reference_number, st)
    THEN [store |-> st, exc |-> "CachedException"]
    ELSE [store |-> [exists |-> TRUE, rows |-> <<CsvLine(row)>>], exc |-> ""]

\* cache_row([row], save_dir): the store afterwards and what was raised.
cache_row(row, st) ==
    IF ~check_file(st)
    THEN [store |-> [exists |-> TRUE, rows |-> <<CsvLine(row)>>], exc |-> ""]
    ELSE IF check_reference_number(row.reference_number, st)
    THEN [store |-> st, exc |-> "CachedException"]
    ELSE LET old_cache ==
                 [i \in 1 .. Len(load_csv_file(st)) |->
                     [load_csv_file(st)[i] EXCEPT
                         !.creation_date = ParseDate(load_csv_file(st)[i].creation_date)]]
             new_cache == old_cache \o <<row>>
         IN  [store |-> [exists |-> TRUE,
                         rows |-> [i \in 1 .. Len(new_cache) |-> CsvLine(new_cache[i])]],
              exc |-> ""]

\* A remove_row_from_csv that writes the file even when there was none.
remove_row_from_csv_always_writes(reference_number, st) ==
    [exists |-> TRUE,
     rows |-> SelectSeq(load_csv_file(st),
                        LAMBDA l : l.reference_number # reference_number)]

\* A remove_row_from_csv that keeps the matching rows and drops the others.
remove_row_from_csv_keep_matching(reference_number, st) ==
    IF check_file(st)
    THEN [exists |-> TRUE,
          rows |-> SelectSeq(load_csv_file(st),
                             LAMBDA l : l.reference_number = reference_number)]
    ELSE st

\* remove_row_from_csv('rows.csv', save_dir, reference_number)
remove_row_from_csv(reference_number, st) ==
    IF check_file(st)
    THEN [exists |-> TRUE,
          rows |-> SelectSeq(load_csv_file(st),
                             LAMBDA l : l.reference_number # reference_number)]
    ELSE st

\* The columns of rows.csv: the fields of the Rows cache_row writes.
CsvColumns == DOMAIN CsvLine([reference_number |-> <<>>, status |-> "", creation_date |-> 1])

\* No value returned (the call raised, or returns nothing by design).
NoRet == [kind |-> "none", refs |-> <<>>, flag |-> FALSE]

\* Python's None: what a function returns when it falls off its end.
None == [kind |-> "None", refs |-> <<>>, flag |-> FALSE]

\* get_reference_numbers('rows.csv', save_dir): the reference_number column
\* when the file exists; no return statement is reached when it does not.
get_reference_numbers(st) ==
    IF check_file(st)
    THEN [kind |-> "Series",
          refs |-> [i \in 1 .. Len(load_csv_file(st)) |->
                       load_csv_file(st)[i].reference_number],
          flag |-> FALSE]
    ELSE None

\* check_scraped(reference_number, 'rows.csv', save_dir): filter on the key,
\* select('scraped') (raises when the frame has no such column), item() (raises
\* unless exactly one row is left); nothing is returned when the file is absent.
\* The columns of the frame are those of the lines of the file (those cache_row
\* writes when the file holds the header only).
check_scraped(reference_number, st) ==
    IF check_file(st)
    THEN LET hits == SelectSeq(load_csv_file(st),
                               LAMBDA l : l.reference_number = reference_number)
         IN  IF "scraped" \notin (IF st.rows = <<>> THEN CsvColumns ELSE DOMAIN st.rows[1])
             THEN [exc |-> "ColumnNotFoundError", ret |-> NoRet]
             ELSE IF Len(hits) # 1
             THEN [exc |-> "ValueError", ret |-> NoRet]
             ELSE [exc |-> "", ret |-> [kind |-> "bool", refs |-> <<>>,
                                        flag |-> hits[1].scraped]]
    ELSE [exc |-> "", ret |-> None]

\* ------------------------------------------------------------------ cache API

\* Keys handed to remove_row_from_csv: the stored keys and one that is never stored.
RemoveKeys == {clean_reference_number(r) : r \in RawRefs} \cup {<<"Z", "9">>}

KeysOf(rows) == {rows[i].reference_number : i \in 1 .. Len(rows)}

NoRow == [reference_number |-> <<>>, status |-> "", creation_date |-> 0]

\* No cache API caller.
CacheIdle ==
    /\ calls = 0
    /\ lastCall = [op |-> "none", key |-> <<>>, status |-> "", creation_date |-> 0]
    /\ lastExc = ""
    /\ appended = <<>>
    /\ clean = TRUE
    /\ lastRet = NoRet
    /\ prevStore = Absent

\* No login form submitted.
NoLogin == [done |-> FALSE, loads |-> FALSE, frmCreate |-> FALSE, incorrectPassword |-> FALSE]

\* No crawl session.
CrawlIdle ==
    /\ pc = "idle"
    /\ exc = ""
    /\ dates = [start_date |-> 1, end_date |-> 1]
    /\ offset = 0
    /\ rowId = 0
    /\ cur = [bound |-> FALSE, row |-> NoRow]
    /\ requests = 0
    /\ scanned = 0
    /\ lastClass = "none"
    /\ lastDate = 0
    /\ sorted = TRUE
    /\ belowSeen = FALSE
    /\ timedOut = FALSE
    /\ startedEmpty = TRUE
    /\ login = NoLogin
    /\ attempts = 0

\* No Dates value under construction.
CtorIdle ==
    /\ dModule = "models"
    /\ dStart = 1
    /\ dEnd = 1
    /\ dResult = "none"

\* No normaliser run.
NormIdle ==
    /\ nRaw = <<>>
    /\ nOther = <<>>
    /\ nOut = <<>>
    /\ nOutOther = <<>>
    /\ nAgain = <<>>
    /\ nStep = 0

\* No Row.from_array call.
ParseIdle ==
    /\ pArray = [n |-> 0, reference_number |-> <<>>, status |-> "", date |-> 0]
    /\ pResult = [done |-> FALSE, exc |-> "", row |-> NoRow]

\* What the document page of a reference shows when nothing was requested.
NoPage ==
    [errorPage |-> FALSE, table |-> FALSE, data |-> {}, fields |-> FALSE,
     container_type |-> "", quantity |-> <<>>, events |-> <<>>]

\* No reconciliation pass.
ReconIdle ==
    /\ rPc = "idle"
    /\ rExc = ""
    /\ rRefs = <<>>
    /\ rIdx = 0
    /\ rIn = NoPage
    /\ rRaised = ""
    /\ rFetched = FALSE
    /\ rRemoved = {}
    /\ emitted = <<>>

\* No Driver in use.
DriverIdle ==
    /\ wModule = "driver"
    /\ wPc = "idle"
    /\ wSelf = {}
    /\ wTimeout = 0
    /\ wBrowsers = <<>>
    /\ wLeft = ""
    /\ wUses = 0

\* No repeated crawl.
RerunIdle ==
    /\ listing = <<>>
    /\ run = 0
    /\ store1 = Absent
    /\ saveDirs = <<>>

\* No _get_release_status call.
StatusIdle ==
    /\ sPage = NoPage
    /\ sResult = [done |-> FALSE, exc |-> "", status |-> ""]

\* The sessions that may write to one save directory.
Sessions == {1, 2}

\* No session is calling cache_row.
RaceIdle ==
    /\ qPc = [w \in Sessions |-> "idle"]
    /\ qRow = [w \in Sessions |-> NoRow]
    /\ qOld = [w \in Sessions |-> <<>>]
    /\ qCalls = [w \in Sessions |-> 0]
    /\ acked = {}
    /\ overlapped = FALSE

\* No download_data call.
VbsIdle ==
    /\ vPc = "idle"
    /\ vStep = 0
    /\ vExc = ""
    /\ vTimedOut = FALSE
    /\ vElapsed = 0
    /\ vFile = FALSE
    /\ vRet = "none"
    /\ vSeenAt = -1
    /\ vMoved = FALSE

\* No Scraper.crawl_database call.
DbIdle ==
    /\ bPc = "idle"
    /\ bExc = ""
    /\ bDates = [start_date |-> 1, end_date |-> 1]
    /\ bRowId = 0
    /\ bRow = NoRow
    /\ bDid = "none"
    /\ bDoc = ""

RestIdle == DriverIdle /\ RerunIdle /\ StatusIdle /\ RaceIdle /\ VbsIdle /\ DbIdle

LaterIdle == NormIdle /\ ParseIdle /\ ReconIdle /\ RestIdle

CacheInit ==
    /\ CrawlIdle
    /\ CtorIdle
    /\ LaterIdle
    /\ store = Absent
    /\ calls = 0
    /\ lastCall = [op |-> "none", key |-> <<>>, status |-> "", creation_date |-> 0]
    /\ lastExc = ""
    /\ appended = <<>>
    /\ clean = TRUE
    /\ lastRet = NoRet
    /\ prevStore = Absent

\* The single writer calls cache_row([row], save_dir).
CallCacheRow ==
    /\ calls < MaxCalls
    /\ \E raw \in RawRefs, s \in Statuses, d \in CacheDays :
          LET row == Row(raw, s, d)
              r == cache_row(row, store)
              stillClean == clean /\ row.reference_number \notin KeysOf(appended)
          IN  /\ store' = r.store
              /\ lastExc' = r.exc
              /\ lastCall' = [op |-> "cache_row", key |-> row.reference_number,
                              status |-> s, creation_date |-> d]
              /\ lastRet' = NoRet
              /\ clean' = stillClean
              /\ appended' = IF ~stillClean THEN <<>>
                             ELSE IF r.exc = "" THEN Append(appended, row)
                             ELSE appended
    /\ prevStore' = store
    /\ calls' = calls + 1
    /\ UNCHANGED <<crawlOnly, ctorOnly, laterOnly>>

\* The single writer calls remove_row_from_csv('rows.csv', save_dir, key).
CallRemoveRow ==
    /\ calls < MaxCalls
    /\ \E key \in RemoveKeys :
          /\ store' = remove_row_from_csv(key, store)
          /\ lastCall' = [op |-> "remove_row_from_csv", key |-> key,
                          status |-> "", creation_date |-> 0]
    /\ lastExc' = ""
    /\ lastRet' = NoRet
    /\ prevStore' = store
    /\ clean' = FALSE
    /\ appended' = <<>>
    /\ calls' = calls + 1
    /\ UNCHANGED <<crawlOnly, ctorOnly, laterOnly>>

\* A caller reads the keys: get_reference_numbers('rows.csv', save_dir).
CallGetReferenceNumbers ==
    /\ calls < MaxCalls
    /\ lastRet' = get_reference_numbers(store)
    /\ lastCall' = [op |-> "get_reference_numbers", key |-> <<>>,
                    status |-> "", creation_date |-> 0]
    /\ lastExc' = ""
    /\ prevStore' = store
    /\ clean' = FALSE
    /\ appended' = <<>>
    /\ calls' = calls + 1
    /\ UNCHANGED <<store, crawlOnly, ctorOnly, laterOnly>>

\* A caller looks one key up: check_scraped(key, 'rows.csv', save_dir).
CallCheckScraped ==
    /\ calls < MaxCalls
    /\ \E key \in RemoveKeys :
          /\ lastRet' = check_scraped(key, store).ret
          /\ lastExc' = check_scraped(key, store).exc
          /\ lastCall' = [op |-> "check_scraped", key |-> key,
                          status |-> "", creation_date |-> 0]
    /\ prevStore' = store
    /\ clean' = FALSE
    /\ appended' = <<>>
    /\ calls' = calls + 1
    /\ UNCHANGED <<store, crawlOnly, ctorOnly, laterOnly>>

CacheNext ==
    \/ CallCacheRow
    \/ CallRemoveRow
    \/ CallGetReferenceNumbers
    \/ CallCheckScraped

SpecCache == CacheInit /\ [][CacheNext]_vars


\* ------------------------------------------------------------------ crawl

\* Cells of the listing rows the crawl reads.
CrawlRefs == { <<"A", "-", "1">>, <<"B", "2">> }

\* creation dates on the listing: below, at and above the bounds of the windows.
CrawlDays == 2 .. 6

\* Dates windows of the modelled sessions.
Windows == { [start_date |-> 3, end_date |-> 5], [start_date |-> 4, end_date |-> 4] }

\* Cells Row.from_array reads: array[0] .. array[7].
RowCells == 8

\* The cell texts of one listing row: n cells; date = 0 is a date cell that does
\* not match '%m/%d/%Y %I:%M:%S %p', any other value the text of that day.
CellInputs ==
    [n : {RowCells}, reference_number : CrawlRefs, status : Statuses, date : CrawlDays]
    \cup { [n |-> RowCells - 1, reference_number |-> <<"B", "2">>, status |-> "AG", date |-> 4],
           [n |-> RowCells + 1, reference_number |-> <<"B", "2">>, status |-> "XX", date |-> 4],
           [n |-> RowCells, reference_number |-> <<"B", "2">>, status |-> "AG", date |-> 0] }

\* Row.from_array(array)
from_array(array) ==
    IF array.n < RowCells THEN [exc |-> "IndexError", row |-> NoRow]
    ELSE IF array.date = 0 THEN [exc |-> "ValueError", row |-> NoRow]
    ELSE [exc |-> "", row |-> Row(array.reference_number, array.status, array.date)]

\* A _verify_login that does not look at the page source.
verify_login_ignore_page(frmCreate, incorrectPassword) == ~frmCreate

\* _verify_login: frmCreate present, or 'Incorrect Password' in the page source.
verify_login(frmCreate, incorrectPassword) ==
    IF frmCreate THEN FALSE ELSE ~incorrectPassword

\* _authenticate: what it raises.
authenticate(loginPageLoads, frmCreate, incorrectPassword) ==
    IF ~loginPageLoads THEN "LoadingFailedException"
    ELSE IF ~verify_login(frmCreate, incorrectPassword) THEN "LoginFailedException"
    ELSE ""

\* The two tests of _process_rows with the window test left out.
row_checks_no_filter(row, window) ==
    IF window.start_date > row.creation_date THEN "return_false" ELSE "cache"

\* The two tests _process_rows makes before it caches a row.
row_checks(row, window) ==
    IF window.end_date < row.creation_date \/ row.status # "AG"
    THEN "InvalidDocumentException"
    ELSE IF "creaton_date" \notin DOMAIN row
    THEN "AttributeError"
    ELSE IF window.start_date > row.creaton_date
    THEN "return_false"
    ELSE "cache"

\* An except clause that catches every exception.
caught_in_row_loop_all(e) == TRUE

\* except (InvalidDocumentException, CachedException, ValueError)
caught_in_row_loop(e) == e \in {"InvalidDocumentException", "CachedException", "ValueError"}

\* An offset that advances by one row instead of one page.
next_offset_by_one(offset_) == offset_ + 1

\* crawl_database: offset += 10
next_offset(offset_) == offset_ + 10

\* crawl_database: except TimeoutException -> raise LoadingFailedException
crawl_except(e) == IF e = "TimeoutException" THEN "LoadingFailedException" ELSE e

\* A row loop that writes every row it could parse, with no test at all.
process_row_write_unchecked(present, array, window, st, local) ==
    IF present /\ from_array(array).exc = ""
    THEN [go |-> "next", exc |-> "",
          store |-> [exists |-> TRUE,
                     rows |-> Append(st.rows, CsvLine(from_array(array).row))],
          local |-> [bound |-> TRUE, row |-> from_array(array).row]]
    ELSE [go |-> "raise", exc |-> "TimeoutException", store |-> st, local |-> local]

\* One iteration of the loop of _process_rows: `present` is whether the row
\* element appears within the wait, `array` its cell texts, `local` the local
\* variable `row` before the iteration.
\* Result: go = "next" (continue or fall through), "return_false" or "raise".
process_row(present, array, window, st, local) ==
    LET parsed == from_array(array)
        bound == [bound |-> TRUE, row |-> parsed.row]
        check == row_checks(parsed.row, window)
        cached == cache_row(parsed.row, st)
        raised ==
            IF ~present THEN "TimeoutException"
            ELSE IF parsed.exc # "" THEN parsed.exc
            ELSE IF check \in {"InvalidDocumentException", "AttributeError"} THEN check
            ELSE IF check = "return_false" THEN ""
            ELSE cached.exc
        local2 == IF present /\ parsed.exc = "" THEN bound ELSE local
    IN  IF raised = ""
        THEN IF check = "return_false"
             THEN [go |-> "return_false", exc |-> "", store |-> st, local |-> local2]
             ELSE [go |-> "next", exc |-> "", store |-> cached.store, local |-> local2]
        ELSE IF caught_in_row_loop(raised)
        THEN IF local2.bound
             THEN [go |-> "next", exc |-> "", store |-> st, local |-> local2]
             ELSE [go |-> "raise", exc |-> "UnboundLocalError", store |-> st, local |-> local2]
        ELSE [go |-> "raise", exc |-> raised, store |-> st, local |-> local2]

\* What the crawl window rule makes of a row read from the listing.
Classify(present, array, window, st) ==
    IF ~present THEN "timeout"
    ELSE IF from_array(array).exc # "" THEN "malformed"
    ELSE LET row == from_array(array).row
         IN  IF row.creation_date < window.start_date THEN "stop"
             ELSE IF row.creation_date > window.end_date \/ row.status # "AG" THEN "reject"
             ELSE IF row.reference_number \in KeysOf(st.rows) THEN "duplicate"
             ELSE "accept"

\* Stores a crawl session may find: none, or one left by earlier cache_row calls.
CrawlInitStores ==
    {Absent} \cup {cache_row(Row(raw, "AG", 4), Absent).store : raw \in CrawlRefs}

CrawlInit ==
    /\ CacheIdle
    /\ CtorIdle
    /\ LaterIdle
    /\ store \in CrawlInitStores
    /\ startedEmpty = ~store.exists
    /\ dates \in Windows
    /\ pc = "start"
    /\ exc = ""
    /\ offset = 0
    /\ rowId = 0
    /\ cur = [bound |-> FALSE, row |-> NoRow]
    /\ requests = 0
    /\ scanned = 0
    /\ lastClass = "none"
    /\ lastDate = 0
    /\ sorted = TRUE
    /\ belowSeen = FALSE
    /\ timedOut = FALSE
    /\ login = NoLogin
    /\ attempts = 0

\* crawl_database up to the page loop: save directory, _authenticate, offset = 0.
Authenticate ==
    /\ pc = "start"
    /\ \E loginPageLoads, frmCreate, incorrectPassword \in BOOLEAN :
          LET e == crawl_except(authenticate(loginPageLoads, frmCreate, incorrectPassword))
          IN  /\ pc' = IF e = "" THEN "load" ELSE "raised"
              /\ exc' = e
              /\ login' = [done |-> TRUE, loads |-> loginPageLoads, frmCreate |-> frmCreate,
                           incorrectPassword |-> incorrectPassword]
              /\ attempts' = IF loginPageLoads THEN attempts + 1 ELSE attempts
    /\ offset' = 0
    /\ UNCHANGED <<store, cacheOnly, ctorOnly, laterOnly, dates, rowId, cur, requests, scanned, lastClass,
                   lastDate, sorted, belowSeen, timedOut, startedEmpty>>

\* driver.get(url + str(offset)); wait.until(presence of txtClient)
LoadPage ==
    /\ pc = "load"
    /\ requests' = requests + 1
    /\ \E loads \in BOOLEAN :
          /\ loads => offset < MaxPages * 10
          /\ IF loads
             THEN /\ pc' = "scan"
                  /\ exc' = ""
                  /\ timedOut' = timedOut
             ELSE /\ pc' = "raised"
                  /\ exc' = crawl_except("TimeoutException")
                  /\ timedOut' = TRUE
    /\ rowId' = 15
    /\ cur' = [bound |-> FALSE, row |-> NoRow]
    /\ UNCHANGED <<store, cacheOnly, ctorOnly, laterOnly, dates, offset, scanned, lastClass, lastDate,
                   sorted, belowSeen, startedEmpty, login, attempts>>

\* One iteration of _process_rows, and what crawl_database does when the loop
\* ends: break on False, offset += 10 on True, the handler on an exception.
RowStep(present, array) ==
    /\ pc = "scan"
    /\ LET r == process_row(present, array, dates, store, cur)
           parsed == present /\ from_array(array).exc = ""
           d == from_array(array).row.creation_date
           lastRow == rowId = 24
       IN  /\ store' = r.store
           /\ cur' = r.local
           /\ pc' = CASE r.go = "raise" -> "raised"
                      [] r.go = "return_false" -> "done"
                      [] r.go = "next" /\ lastRow -> "load"
                      [] OTHER -> "scan"
           /\ exc' = IF r.go = "raise" THEN crawl_except(r.exc) ELSE ""
           /\ rowId' = IF r.go = "next" /\ ~lastRow THEN rowId + 1 ELSE rowId
           /\ offset' = IF r.go = "next" /\ lastRow THEN next_offset(offset) ELSE offset
           /\ scanned' = IF present THEN scanned + 1 ELSE scanned
           /\ timedOut' = (timedOut \/ ~present)
           /\ lastClass' = Classify(present, array, dates, store)
           /\ lastDate' = IF parsed THEN d ELSE lastDate
           /\ sorted' = (sorted /\ (parsed /\ lastDate # 0 => d < lastDate))
           /\ belowSeen' = (belowSeen \/ (parsed /\ d < dates.start_date))
    /\ UNCHANGED <<cacheOnly, ctorOnly, dates, requests, startedEmpty, login, attempts>>

\* The row element and its cells are whatever the site serves.
ProcessRow ==
    /\ \E present \in BOOLEAN, array \in CellInputs : RowStep(present, array)
    /\ UNCHANGED laterOnly

CrawlNext == Authenticate \/ LoadPage \/ ProcessRow

SpecCrawl == CrawlInit /\ [][CrawlNext]_vars


\* ------------------------------------------------------------------ Dates

\* timedelta(weeks=1), in days
OneWeek == 7

\* pydantic's PastDate: strictly before today.
past_date(d) == d < Today

\* A range test that also refuses a range of exactly one week.
validate_date_range_inclusive(start_known, start_date, end_date) ==
    IF start_known /\ (end_date - start_date) >= OneWeek THEN "ValueError" ELSE ""

\* Dates.validate_date_range: start_known is whether values.data holds a
\* start_date, which it does only when start_date itself was valid.
validate_date_range(start_known, start_date, end_date) ==
    IF start_known /\ (end_date - start_date) > OneWeek THEN "ValueError" ELSE ""

\* Dates(start_date=..., end_date=...) of app.models.scraper (fields typed date)
\* and of app.schemas.scraper (fields typed PastDate).
Dates(module, start_date, end_date) ==
    LET startOk == module = "models" \/ past_date(start_date)
        endTyped == module = "models" \/ past_date(end_date)
        endOk == endTyped /\ validate_date_range(startOk, start_date, end_date) = ""
    IN  IF startOk /\ endOk THEN "ok" ELSE "ValidationError"

CtorInit ==
    /\ CacheIdle
    /\ CrawlIdle
    /\ LaterIdle
    /\ store = Absent
    /\ dModule \in {"models", "schemas"}
    /\ dStart \in Days
    /\ dEnd \in Days
    /\ dResult = "none"

\* The caller constructs the Dates value of a session.
Construct ==
    /\ dResult = "none"
    /\ dResult' = Dates(dModule, dStart, dEnd)
    /\ UNCHANGED <<store, cacheOnly, crawlOnly, laterOnly, dModule, dStart, dEnd>>

CtorNext == Construct

SpecDates == CtorInit /\ [][CtorNext]_vars


\* ------------------------------------------------------------------ normaliser

RefAlphabet == {"A", "-", " "}

\* Raw reference numbers the normaliser is run on.
NormInputs ==
    UNION {[1 .. k -> RefAlphabet] : k \in 0 .. MaxRefLen}
    \cup { <<"A", "B", "-", "1", "2", "-", "3", "4", " ">>,
           <<"A", "B", "1", "2", "3", "4">> }

\* s with character c put in after its first i characters.
InsertAt(s, i, c) == SubSeq(s, 1, i) \o <<c>> \o SubSeq(s, i + 1, Len(s))

\* The texts that differ from s by one more hyphen or one more outer blank.
OneMore(s) ==
    {InsertAt(s, i, "-") : i \in 0 .. Len(s)} \cup {<<" ">> \o s, s \o <<" ">>}

NormInit ==
    /\ CacheIdle
    /\ CrawlIdle
    /\ CtorIdle
    /\ ParseIdle
    /\ ReconIdle
    /\ RestIdle
    /\ store = Absent
    /\ nRaw \in NormInputs
    /\ nOther = <<>>
    /\ nOut = <<>>
    /\ nOutOther = <<>>
    /\ nAgain = <<>>
    /\ nStep = 0

\* Row(reference_number=nRaw, ...) and Row(reference_number=nOther, ...)
Normalise ==
    /\ nStep = 0
    /\ \E o \in OneMore(nRaw) :
          /\ nOther' = o
          /\ nOutOther' = clean_reference_number(o)
    /\ nOut' = clean_reference_number(nRaw)
    /\ nStep' = 1
    /\ UNCHANGED <<store, cacheOnly, crawlOnly, ctorOnly, parseOnly, reconOnly, restOnly, nRaw, nAgain>>

\* Row(reference_number=nOut, ...): a stored key read back into a Row.
NormaliseAgain ==
    /\ nStep = 1
    /\ nAgain' = clean_reference_number(nOut)
    /\ nStep' = 2
    /\ UNCHANGED <<store, cacheOnly, crawlOnly, ctorOnly, parseOnly, reconOnly, restOnly, nRaw, nOther, nOut,
                   nOutOther>>

NormNext == Normalise \/ NormaliseAgain

SpecNorm == NormInit /\ [][NormNext]_vars

\* ------------------------------------------------------------------ from_array

\* Cell arrays handed to Row.from_array.
ParseInputs ==
    [n : (RowCells - 2) .. (RowCells + 1), reference_number : RawRefs,
     status : Statuses, date : {0} \cup CrawlDays]

ParseInit ==
    /\ CacheIdle
    /\ CrawlIdle
    /\ CtorIdle
    /\ NormIdle
    /\ ReconIdle
    /\ RestIdle
    /\ store = Absent
    /\ pArray \in ParseInputs
    /\ pResult = [done |-> FALSE, exc |-> "", row |-> NoRow]

\* Row.from_array(pArray)
Parse ==
    /\ ~pResult.done
    /\ pResult' = [done |-> TRUE, exc |-> from_array(pArray).exc,
                   row |-> from_array(pArray).row]
    /\ UNCHANGED <<store, cacheOnly, crawlOnly, ctorOnly, normOnly, reconOnly, restOnly, pArray>>

ParseNext == Parse

SpecParse == ParseInit /\ [][ParseNext]_vars

\* ------------------------------------------------------------------ _process_documents

\* The rows a reconciliation pass may find cached.
ReconRows == {Row(raw, "AG", 31) : raw \in { <<"A", "-", "1">>, <<"B", "2">>, <<" ", "C", "-", "3">> }}

\* The store after cache_row was called for each row of rows in turn.
RECURSIVE CacheAll(_, _)
CacheAll(rows, st) ==
    IF rows = <<>> THEN st
    ELSE CacheAll(Tail(rows), cache_row(Head(rows), st).store)

\* A rows.csv that carries the scraped column check_scraped selects: the
\* lines of a store of one or two rows, A1 first, each marked checked or not. No
\* function of the repository writes the column; the file is read as found.
MarkedStores ==
    {[st EXCEPT !.rows = [i \in 1 .. Len(st.rows) |->
                            [reference_number |-> st.rows[i].reference_number,
                             status |-> st.rows[i].status,
                             creation_date |-> st.rows[i].creation_date,
                             scraped |-> m[i]]]] :
        <<st, m>> \in UNION {
            {CacheAll(q, Absent) :
                q \in {q \in [1 .. k -> ReconRows] :
                          /\ q[1].reference_number = <<"A", "1">>
                          /\ \A a, b \in 1 .. k : a # b => q[a] # q[b]}}
            \X [1 .. k -> BOOLEAN] : k \in 1 .. 2}}

\* Stores a pass may find: none, one emptied by remove_row_from_csv, one
\* left by cache_row calls with distinct keys, or one with the scraped column.
ReconStores ==
    {Absent}
    \cup MarkedStores
    \cup {remove_row_from_csv(r.reference_number, cache_row(r, Absent).store) : r \in ReconRows}
    \cup {CacheAll(rows, Absent) :
            rows \in {q \in UNION {[1 .. k -> ReconRows] : k \in 1 .. MaxBatch} :
                         \A i, j \in 1 .. Len(q) : i # j => q[i] # q[j]}}

\* The container number read from the PDF of the document of a reference.
ContainerNumber == "C1"

\* Event exports: lines with the columns Container, Point Event and Event Date.
EventExports ==
    { <<>>,
      <<[Container |-> "C1", PointEvent |-> "ARRIVE", EventDate |-> 5]>>,
      <<[Container |-> "C1", PointEvent |-> "DEPART", EventDate |-> 5]>>,
      <<[Container |-> "C2", PointEvent |-> "ARRIVE", EventDate |-> 5],
        [Container |-> "C1", PointEvent |-> "DEPART", EventDate |-> 6]>> }

\* get_date_from_container_number: the Event Date column of the lines of the
\* container with Point Event 'ARRIVE'; no such line raises.
get_date_from_container_number(container_number, export) ==
    LET q == SelectSeq(export, LAMBDA l : l.Container = container_number
                                          /\ l.PointEvent = "ARRIVE")
    IN  IF q = <<>>
        THEN [exc |-> "InvalidDocumentException", dates |-> <<>>]
        ELSE [exc |-> "", dates |-> [i \in 1 .. Len(q) |-> q[i].EventDate]]

\* Texts of the cells of the release table.
DataCells == {{}, {"Released"}, {"Transferred"}, {"Approved"}, {"Pending"}}

\* What the site may serve for one reference: the error page or the document
\* page, with or without release table and with or without the form fields.
Pages ==
    [errorPage : BOOLEAN, table : BOOLEAN, data : DataCells, fields : BOOLEAN,
     container_type : {"LCL", "FCL"}, quantity : { <<"5">> }, events : EventExports]

\* ' PK - PACKAGE'
PackageLabel == <<" ", "P", "K", " ", "-", " ", "P", "A", "C", "K", "A", "G", "E">>

\* Document.add_label
add_label(quantity, container_type) ==
    IF container_type = "LCL" THEN quantity \o PackageLabel ELSE quantity

\* Document(invoice_number=..., container_type=..., quantity=...)
Document(container_type, quantity) ==
    [container_type |-> container_type, quantity |-> add_label(quantity, container_type)]

NoDocument == [container_type |-> "", quantity |-> <<>>]

\* _get_release_status: 'Approved' or ... is true whatever data holds, so the
\* final else is never taken.
get_release_status(page) ==
    IF ~page.table THEN [exc |-> "InvalidDocumentException", status |-> ""]
    ELSE IF "Released" \in page.data \/ "Transferred" \in page.data
    THEN [exc |-> "", status |-> "Released"]
    ELSE [exc |-> "", status |-> "Approved"]

\* _get_document_data
get_document_data(page) ==
    IF ~page.fields THEN [exc |-> "InvalidDocumentException", document |-> NoDocument]
    ELSE [exc |-> "", document |-> Document(page.container_type, page.quantity)]

\* The try block of _process_documents for one reference: what it raises,
\* whether it got as far as _get_release_status, and what it fetched.
process_document(reference, page, st) ==
    LET scraped == check_scraped(reference, st)
        status == get_release_status(page)
        document == get_document_data(page)
        none == [exc |-> "", fetched |-> FALSE, status |-> "", document |-> NoDocument]
    IN  IF page.errorPage THEN [none EXCEPT !.exc = "InvalidDocumentException"]
        ELSE IF scraped.exc # "" THEN [none EXCEPT !.exc = scraped.exc]
        ELSE IF scraped.ret.kind = "bool" /\ scraped.ret.flag
        THEN [none EXCEPT !.exc = "CachedException"]
        ELSE IF status.exc # "" THEN [none EXCEPT !.exc = status.exc, !.fetched = TRUE]
        ELSE IF document.exc # ""
        THEN [none EXCEPT !.exc = document.exc, !.fetched = TRUE, !.status = status.status]
        ELSE [exc |-> "", fetched |-> TRUE, status |-> status.status,
              document |-> document.document]

\* except (InvalidDocumentException, CachedException)
caught_in_doc_loop(e) == e \in {"InvalidDocumentException", "CachedException"}

ReconInit ==
    /\ CacheIdle
    /\ CrawlIdle
    /\ CtorIdle
    /\ NormIdle
    /\ ParseIdle
    /\ RestIdle
    /\ store \in ReconStores
    /\ rPc = "start"
    /\ rExc = ""
    /\ rRefs = <<>>
    /\ rIdx = 0
    /\ rIn = NoPage
    /\ rRaised = ""
    /\ rFetched = FALSE
    /\ rRemoved = {}
    /\ emitted = <<>>

\* for reference in get_reference_numbers('rows.csv', save_dir): iterating
\* None raises TypeError.
StartPass ==
    /\ rPc = "start"
    /\ LET ret == get_reference_numbers(store)
       IN  IF ret.kind = "None"
           THEN /\ rPc' = "raised"
                /\ rExc' = "TypeError"
                /\ rRefs' = <<>>
           ELSE /\ rPc' = IF ret.refs = <<>> THEN "done" ELSE "loop"
                /\ rExc' = ""
                /\ rRefs' = ret.refs
    /\ UNCHANGED <<store, cacheOnly, crawlOnly, ctorOnly, normOnly, parseOnly, restOnly,
                   rIdx, rIn, rRaised, rFetched, rRemoved, emitted>>

\* One turn of the for loop: the try block and its except clause.
ProcessDocument ==
    /\ rPc = "loop"
    /\ rIdx < Len(rRefs)
    /\ \E page \in Pages :
          LET reference == rRefs[rIdx + 1]
              r == process_document(reference, page, store)
          IN  /\ rIn' = page
              /\ rRaised' = r.exc
              /\ rFetched' = r.fetched
              /\ IF caught_in_doc_loop(r.exc)
                 THEN /\ store' = remove_row_from_csv(reference, store)
                      /\ rRemoved' = rRemoved \cup {reference}
                      /\ rPc' = IF rIdx + 1 = Len(rRefs) THEN "done" ELSE "loop"
                      /\ rExc' = ""
                 ELSE IF r.exc # ""
                 THEN /\ rPc' = "raised"
                      /\ rExc' = r.exc
                      /\ UNCHANGED <<store, rRemoved>>
                 ELSE /\ rPc' = IF rIdx + 1 = Len(rRefs) THEN "done" ELSE "loop"
                      /\ rExc' = ""
                      /\ UNCHANGED <<store, rRemoved>>
    /\ rIdx' = rIdx + 1
    /\ UNCHANGED <<cacheOnly, crawlOnly, ctorOnly, normOnly, parseOnly, restOnly, rRefs, emitted>>

ReconNext == StartPass \/ ProcessDocument

SpecRecon == ReconInit /\ [][ReconNext]_vars

\* ------------------------------------------------------------------ Driver

\* WEBDRIVER_WAIT_TIMEOUT: 'short', 'medium', 'long'
WaitTimeouts == {5, 30, 60}

\* How the body of a with-block ends: normally ("") or by an exception.
BodyOutcomes == {"", "TimeoutException", "LoginFailedException", "KeyboardInterrupt"}

\* Driver.__init__: the attributes it sets.
driver_init == {"wait_timeout", "download_dir"}

\* Driver.__enter__: app.scraper.driver keeps the Chrome in a local variable,
\* app.scraper.scraper assigns it to self.driver.
driver_enter(module, self) ==
    IF module = "scraper" THEN self \cup {"driver", "wait"} ELSE self

\* Driver.__exit__: self.driver.quit() if the object has a driver attribute.
driver_exit(self, browsers) ==
    IF "driver" \in self
    THEN [browsers EXCEPT ![Len(browsers)] = "quit"]
    ELSE browsers

DriverInit ==
    /\ CacheIdle
    /\ CrawlIdle
    /\ CtorIdle
    /\ NormIdle
    /\ ParseIdle
    /\ ReconIdle
    /\ RerunIdle
    /\ StatusIdle
    /\ RaceIdle
    /\ VbsIdle
    /\ DbIdle
    /\ store = Absent
    /\ wModule \in {"driver", "scraper"}
    /\ wPc = "out"
    /\ wSelf = {}
    /\ wTimeout = 0
    /\ wBrowsers = <<>>
    /\ wLeft = ""
    /\ wUses = 0

\* with Driver(wait) as (driver, wait): __init__, then __enter__ creates a Chrome.
EnterDriver ==
    /\ wPc = "out"
    /\ wUses < MaxUses
    /\ \E t \in WaitTimeouts : wTimeout' = t
    /\ wSelf' = driver_enter(wModule, driver_init)
    /\ wBrowsers' = Append(wBrowsers, "running")
    /\ wPc' = "in"
    /\ wUses' = wUses + 1
    /\ UNCHANGED <<store, cacheOnly, crawlOnly, ctorOnly, normOnly, parseOnly, reconOnly,
                   rerunOnly, statusOnly, raceOnly, vbsOnly, dbOnly, wModule, wLeft>>

\* The with-block is left, normally or by an exception: __exit__ runs.
LeaveDriver ==
    /\ wPc = "in"
    /\ \E e \in BodyOutcomes : wLeft' = e
    /\ wBrowsers' = driver_exit(wSelf, wBrowsers)
    /\ wPc' = "out"
    /\ UNCHANGED <<store, cacheOnly, crawlOnly, ctorOnly, normOnly, parseOnly, reconOnly,
                   rerunOnly, statusOnly, raceOnly, vbsOnly, dbOnly, wModule, wSelf, wTimeout, wUses>>

DriverNext == EnterDriver \/ LeaveDriver

SpecDriver == DriverInit /\ [][DriverNext]_vars

\* ------------------------------------------------------------------ two sessions

\* The Rows the sessions cache.
RaceRows == {Row(raw, "AG", 31) : raw \in { <<"A", "-", "1">>, <<"B", "2">> }}

\* old_cache of cache_row: the loaded lines with creation_date parsed.
load_old_cache(st) ==
    [i \in 1 .. Len(load_csv_file(st)) |->
        [load_csv_file(st)[i] EXCEPT
            !.creation_date = ParseDate(load_csv_file(st)[i].creation_date)]]

\* A concat that keeps the new row only.
concat_new_only(old_cache, row) == <<row>>

\* new_cache = pl.concat([old_cache, new_cache])
concat(old_cache, row) == old_cache \o <<row>>

\* new_cache.write_csv(cache_file)
write_csv(frame) == [exists |-> TRUE, rows |-> [i \in 1 .. Len(frame) |-> CsvLine(frame[i])]]

RaceInit ==
    /\ CacheIdle
    /\ CrawlIdle
    /\ CtorIdle
    /\ NormIdle
    /\ ParseIdle
    /\ ReconIdle
    /\ DriverIdle
    /\ RerunIdle
    /\ StatusIdle
    /\ VbsIdle
    /\ DbIdle
    /\ store = Absent
    /\ qPc = [w \in Sessions |-> "idle"]
    /\ qRow = [w \in Sessions |-> NoRow]
    /\ qOld = [w \in Sessions |-> <<>>]
    /\ qCalls = [w \in Sessions |-> 0]
    /\ acked = {}
    /\ overlapped = FALSE

\* What every step of session w leaves alone, and the overlap it records.
RaceFrame(w) ==
    /\ overlapped' = (overlapped \/ \E v \in Sessions \ {w} : qPc[v] # "idle")
    /\ UNCHANGED <<cacheOnly, crawlOnly, ctorOnly, normOnly, parseOnly, reconOnly,
                   driverOnly, rerunOnly, statusOnly, vbsOnly, dbOnly>>

\* cache_row, line 30: if not check_file(...)
CheckFile(w) ==
    /\ qPc[w] = "idle"
    /\ qCalls[w] < MaxSessionCalls
    /\ \E row \in RaceRows : qRow' = [qRow EXCEPT ![w] = row]
    /\ qPc' = [qPc EXCEPT ![w] = IF check_file(store) THEN "scan" ELSE "create"]
    /\ qCalls' = [qCalls EXCEPT ![w] = @ + 1]
    /\ UNCHANGED <<store, qOld, acked>>
    /\ RaceFrame(w)

\* cache_row, lines 31-33: the file was absent, write the row as a new file.
CreateFile(w) ==
    /\ qPc[w] = "create"
    /\ store' = write_csv(<<qRow[w]>>)
    /\ acked' = acked \cup {qRow[w].reference_number}
    /\ qPc' = [qPc EXCEPT ![w] = "idle"]
    /\ UNCHANGED <<qRow, qOld, qCalls>>
    /\ RaceFrame(w)

\* cache_row, lines 35-37: _check_reference_number scans the file.
ScanFile(w) ==
    /\ qPc[w] = "scan"
    /\ qPc' = [qPc EXCEPT ![w] =
                  IF check_reference_number(qRow[w].reference_number, store)
                  THEN "idle" ELSE "load"]
    /\ UNCHANGED <<store, qRow, qOld, qCalls, acked>>
    /\ RaceFrame(w)

\* cache_row, lines 40-41: load the file and parse creation_date.
LoadFile(w) ==
    /\ qPc[w] = "load"
    /\ qOld' = [qOld EXCEPT ![w] = load_old_cache(store)]
    /\ qPc' = [qPc EXCEPT ![w] = "write"]
    /\ UNCHANGED <<store, qRow, qCalls, acked>>
    /\ RaceFrame(w)

\* cache_row, lines 44-45: concat and write the file.
WriteFile(w) ==
    /\ qPc[w] = "write"
    /\ store' = write_csv(concat(qOld[w], qRow[w]))
    /\ acked' = acked \cup {qRow[w].reference_number}
    /\ qPc' = [qPc EXCEPT ![w] = "idle"]
    /\ qOld' = [qOld EXCEPT ![w] = <<>>]
    /\ UNCHANGED <<qRow, qCalls>>
    /\ RaceFrame(w)

RaceNext ==
    \E w \in Sessions :
        CheckFile(w) \/ CreateFile(w) \/ ScanFile(w) \/ LoadFile(w) \/ WriteFile(w)

SpecRace == RaceInit /\ [][RaceNext]_vars

\* ------------------------------------------------------------------ repeated crawl

\* strftime('%b %d %Y') of a date: month, day, year.
save_name(d) == <<MonthOf(d, 1), d - DaysBefore(MonthOf(d, 1)), 2024>>

\* _generate_save_directory: '<start> - <end>'
generate_save_directory(window) ==
    <<save_name(window.start_date), save_name(window.end_date)>>

\* Rows a listing is made of: inside the windows, rejected by status, newer
\* than the windows, older than the windows, and one with a malformed date.
ListingRows ==
    { [n |-> RowCells, reference_number |-> <<"A", "-", "1">>, status |-> "AG", date |-> 4],
      [n |-> RowCells, reference_number |-> <<"B", "2">>, status |-> "XX", date |-> 4],
      [n |-> RowCells, reference_number |-> <<"B", "2">>, status |-> "AG", date |-> 6],
      [n |-> RowCells, reference_number |-> <<"B", "2">>, status |-> "AG", date |-> 2],
      [n |-> RowCells, reference_number |-> <<"B", "2">>, status |-> "AG", date |-> 0] }

Listings == UNION {[1 .. k -> ListingRows] : k \in 0 .. MaxListing}

\* The cells of a row element that never appears.
NoArray == [n |-> 0, reference_number |-> <<>>, status |-> "", date |-> 0]

RerunInit ==
    /\ CacheIdle
    /\ CtorIdle
    /\ NormIdle
    /\ ParseIdle
    /\ ReconIdle
    /\ DriverIdle
    /\ StatusIdle
    /\ RaceIdle
    /\ VbsIdle
    /\ DbIdle
    /\ store \in CrawlInitStores
    /\ startedEmpty = ~store.exists
    /\ dates \in Windows
    /\ listing \in Listings
    /\ run = 1
    /\ store1 = Absent
    /\ saveDirs = <<generate_save_directory(dates)>>
    /\ pc = "start"
    /\ exc = ""
    /\ offset = 0
    /\ rowId = 0
    /\ cur = [bound |-> FALSE, row |-> NoRow]
    /\ requests = 0
    /\ scanned = 0
    /\ lastClass = "none"
    /\ lastDate = 0
    /\ sorted = TRUE
    /\ belowSeen = FALSE
    /\ timedOut = FALSE
    /\ login = NoLogin
    /\ attempts = 0

\* One iteration of _process_rows on the listing: row index rowId of the page
\* at `offset` is row offset + rowId - 14 of the listing, if there is one.
ReplayRow ==
    /\ run \in {1, 2}
    /\ LET k == offset + rowId - 14
       IN  IF k <= Len(listing)
           THEN RowStep(TRUE, listing[k])
           ELSE RowStep(FALSE, NoArray)
    /\ UNCHANGED laterOnly

\* The first call is over (returned or raised); crawl_database is called
\* again with the same Dates.
SecondCall ==
    /\ run = 1
    /\ pc \in {"done", "raised"}
    /\ run' = 2
    /\ store1' = store
    /\ saveDirs' = Append(saveDirs, generate_save_directory(dates))
    /\ pc' = "start"
    /\ exc' = ""
    /\ offset' = 0
    /\ rowId' = 0
    /\ cur' = [bound |-> FALSE, row |-> NoRow]
    /\ requests' = 0
    /\ scanned' = 0
    /\ lastClass' = "none"
    /\ lastDate' = 0
    /\ sorted' = TRUE
    /\ belowSeen' = FALSE
    /\ timedOut' = FALSE
    /\ login' = NoLogin
    /\ attempts' = 0
    /\ UNCHANGED <<store, cacheOnly, ctorOnly, normOnly, parseOnly, reconOnly, driverOnly,
                   statusOnly, raceOnly, vbsOnly, dbOnly, dates, startedEmpty,
                   listing>>

RerunNext == Authenticate \/ LoadPage \/ ReplayRow \/ SecondCall

SpecRerun == RerunInit /\ [][RerunNext]_vars

\* ------------------------------------------------------------------ _get_release_status

\* Cell texts a release table may hold.
StatusTexts == {"Released", "Transferred", "Approved", "Auto-Inspected", "Pending", "On Hold"}

\* Document pages _get_release_status is called on.
StatusPages ==
    [errorPage : {FALSE}, table : BOOLEAN, data : SUBSET StatusTexts, fields : {TRUE},
     container_type : {"LCL"}, quantity : { <<"5">> }, events : { <<>> }]

StatusInit ==
    /\ CacheIdle
    /\ CrawlIdle
    /\ CtorIdle
    /\ NormIdle
    /\ ParseIdle
    /\ ReconIdle
    /\ DriverIdle
    /\ RerunIdle
    /\ RaceIdle
    /\ VbsIdle
    /\ DbIdle
    /\ store = Absent
    /\ sPage \in StatusPages
    /\ sResult = [done |-> FALSE, exc |-> "", status |-> ""]

\* status = self._get_release_status(driver, wait)
GetReleaseStatus ==
    /\ ~sResult.done
    /\ sResult' = [done |-> TRUE, exc |-> get_release_status(sPage).exc,
                   status |-> get_release_status(sPage).status]
    /\ UNCHANGED <<store, cacheOnly, crawlOnly, ctorOnly, normOnly, parseOnly, reconOnly,
                   driverOnly, rerunOnly, raceOnly, vbsOnly, dbOnly, sPage>>

StatusNext == GetReleaseStatus

SpecStatus == StatusInit /\ [][StatusNext]_vars

\* ------------------------------------------------------------------ download_data

\* DRIVER_DOWNLOAD_TIMEOUT, in seconds
DRIVER_DOWNLOAD_TIMEOUT == 120

\* DRIVER_DOWNLOAD_POLL_INTERVAL, in seconds
DRIVER_DOWNLOAD_POLL_INTERVAL == 1

\* Longest a time.sleep(poll_interval) lasts beyond poll_interval, in seconds.
MaxOversleep == 1

\* The page interactions of the try block of download_data, in order: a
\* "wait" is a wait.until(...) and raises TimeoutException when it fails, a
\* "find" is a run of driver.find_element(...) calls and raises
\* NoSuchElementException. The login fields, the login form, the facility
\* list, Accept, NotifyMessages, DATEFROM, DATETO, REFERENCE and Search, CSV.
TrySteps == <<"wait", "find", "wait", "wait", "wait", "wait", "wait", "find", "wait">>

step_outcomes(kind) ==
    IF kind = "wait" THEN {"", "TimeoutException"} ELSE {"", "NoSuchElementException"}

\* except TimeoutException or NoSuchElementException: the expression is
\* evaluated first and yields TimeoutException.
caught_in_download(e) == e = "TimeoutException"

\* A loop that takes the download for finished without looking at the file.
wait_for_download_unchecked(elapsed, exists, timeout) ==
    IF elapsed < timeout THEN "True" ELSE "False"

\* wait_for_download, one turn of its while loop: elapsed is time.time() -
\* start_time and exists is path.exists(file); temp_extensions is empty.
\* "sleep" stands for time.sleep(poll_interval) and another turn.
wait_for_download(elapsed, exists, timeout) ==
    IF elapsed < timeout
    THEN IF exists THEN "True" ELSE "sleep"
    ELSE "False"

\* download_data(account, dates, company, csv_filename) is called: the save
\* directory is made and the with-block entered. An export of an earlier
\* call may still lie in DATA_DIR.
VbsInit ==
    /\ CacheIdle
    /\ CrawlIdle
    /\ CtorIdle
    /\ NormIdle
    /\ ParseIdle
    /\ ReconIdle
    /\ DriverIdle
    /\ RerunIdle
    /\ StatusIdle
    /\ RaceIdle
    /\ DbIdle
    /\ store = Absent
    /\ vPc = "try"
    /\ vStep = 0
    /\ vExc = ""
    /\ vTimedOut = FALSE
    /\ vElapsed = 0
    /\ vFile \in BOOLEAN
    /\ vRet = "none"
    /\ vSeenAt = -1
    /\ vMoved = FALSE

\* The next page interaction of the try block, and the except clause.
PageStep ==
    /\ vPc = "try"
    /\ \E e \in step_outcomes(TrySteps[vStep + 1]) :
          /\ vTimedOut' = (e = "TimeoutException")
          /\ IF e = ""
             THEN /\ vPc' = IF vStep + 1 = Len(TrySteps) THEN "download" ELSE "try"
                  /\ vExc' = ""
             ELSE IF caught_in_download(e)
             THEN /\ vPc' = "returned"
                  /\ vExc' = ""
             ELSE /\ vPc' = "raised"
                  /\ vExc' = e
    /\ vStep' = vStep + 1
    /\ UNCHANGED <<vElapsed, vFile, vRet, vSeenAt, vMoved>>
    /\ UNCHANGED <<store, cacheOnly, crawlOnly, ctorOnly, normOnly, parseOnly, reconOnly,
                   driverOnly, rerunOnly, statusOnly, raceOnly, dbOnly>>

\* The browser finishes writing PointsTransactions.csv.
FileAppears ==
    /\ vPc = "download"
    /\ ~vFile
    /\ vFile' = TRUE
    /\ UNCHANGED <<vPc, vStep, vExc, vTimedOut, vElapsed, vRet, vSeenAt, vMoved>>
    /\ UNCHANGED <<store, cacheOnly, crawlOnly, ctorOnly, normOnly, parseOnly, reconOnly,
                   driverOnly, rerunOnly, statusOnly, raceOnly, dbOnly>>

\* if wait_for_download('PointsTransactions.csv'): self._move_download_file(...)
\* One turn of the loop; when it returns, the move and the end of the call.
Poll ==
    /\ vPc = "download"
    /\ LET r == wait_for_download(vElapsed, vFile, DRIVER_DOWNLOAD_TIMEOUT)
       IN  /\ vSeenAt' = IF vFile /\ vElapsed < DRIVER_DOWNLOAD_TIMEOUT
                         THEN vElapsed ELSE vSeenAt
           /\ IF r = "sleep"
              THEN /\ \E d \in 0 .. MaxOversleep :
                         vElapsed' = vElapsed + DRIVER_DOWNLOAD_POLL_INTERVAL + d
                   /\ UNCHANGED <<vPc, vFile, vRet, vMoved>>
              ELSE /\ vRet' = r
                   /\ vPc' = "returned"
                   /\ vMoved' = (r = "True")
                   /\ vFile' = IF r = "True" THEN FALSE ELSE vFile
                   /\ UNCHANGED vElapsed
    /\ UNCHANGED <<vStep, vExc, vTimedOut>>
    /\ UNCHANGED <<store, cacheOnly, crawlOnly, ctorOnly, normOnly, parseOnly, reconOnly,
                   driverOnly, rerunOnly, statusOnly, raceOnly, dbOnly>>

SpecVbs == VbsInit /\ [][PageStep \/ FileAppears \/ Poll]_vars

\* The call keeps running: a pending turn of the loop is taken.
FairSpecVbs == SpecVbs /\ WF_vars(Poll)

\* ------------------------------------------------------------------ Scraper.crawl_database

\* for row_id in range(15, 18)
FirstRowId == 15

LastRowId == 17

\* The Dates values a caller can construct.
DbWindows ==
    {w \in [start_date : Days, end_date : Days] :
        Dates("models", w.start_date, w.end_date) = "ok"}

\* The cells of a listing row: well formed with either status and any day,
\* one cell short, or with a date cell that does not parse.
DbArrays ==
    [n : {RowCells}, reference_number : {<<"B", "-", "2">>}, status : Statuses, date : Days]
    \cup { [n |-> RowCells - 1, reference_number |-> <<"B", "2">>, status |-> "AG", date |-> 4],
           [n |-> RowCells, reference_number |-> <<"B", "2">>, status |-> "AG", date |-> 0] }

\* The two tests crawl_database makes on a row: raise InvalidDocumentException
\* ("skip"), return ("return") or go on to scrape_document ("scrape").
crawl_row_checks(row_data, window) ==
    IF (window.end_date < row_data.creation_date
            /\ row_data.creation_date < window.start_date)
       \/ row_data.status # "AG"
    THEN "skip"
    ELSE IF window.end_date > row_data.creation_date THEN "return"
    ELSE "scrape"

\* scrape_document: what it raises when the document page shows the server
\* error text ("errorPage"), lacks the invoice fields ("noFields") or is the
\* document ("document"). With the fields read it calls
\* self._get_release_table(driver, wait), which takes one argument.
scrape_document(page) ==
    IF page = "errorPage" THEN "InvalidDocumentException"
    ELSE IF page = "noFields" THEN "InvalidDocumentException"
    ELSE "TypeError"

DbInit ==
    /\ CacheIdle
    /\ CrawlIdle
    /\ CtorIdle
    /\ NormIdle
    /\ ParseIdle
    /\ ReconIdle
    /\ DriverIdle
    /\ RerunIdle
    /\ StatusIdle
    /\ RaceIdle
    /\ VbsIdle
    /\ store = Absent
    /\ bPc = "login"
    /\ bExc = ""
    /\ bDates \in DbWindows
    /\ bRowId = 0
    /\ bRow = NoRow
    /\ bDid = "none"
    /\ bDoc = ""

\* The login of crawl_database: the form is submitted and the top links are
\* waited for; a wait that times out ends the call.
DbLogin ==
    /\ bPc = "login"
    /\ \E loads \in BOOLEAN :
          IF loads
          THEN /\ bPc' = "loop"
               /\ bRowId' = FirstRowId
               /\ bExc' = ""
          ELSE /\ bPc' = "raised"
               /\ bExc' = "LoadingFailedException"
               /\ UNCHANGED bRowId
    /\ UNCHANGED <<bRow, bDid, bDoc>>
    /\ UNCHANGED <<store, cacheOnly, crawlOnly, ctorOnly, normOnly, parseOnly, reconOnly,
                   driverOnly, rerunOnly, statusOnly, raceOnly, vbsOnly, bDates>>

\* What the loop does after a row that did not end the call.
DbContinue ==
    /\ bPc' = IF bRowId = LastRowId THEN "returned" ELSE "loop"
    /\ bRowId' = bRowId + 1
    /\ bExc' = ""

\* What the loop does when exception e leaves crawl_database.
DbRaise(e) ==
    /\ bPc' = "raised"
    /\ bExc' = e
    /\ UNCHANGED bRowId

\* One turn of the for loop: the listing is requested, the row waited for
\* and parsed, tested, and scraped or not.
DbRow ==
    /\ bPc = "loop"
    /\ \E rowLoads \in BOOLEAN, array \in DbArrays, page \in {"errorPage", "noFields", "document"} :
          LET parsed == from_array(array)
              check == crawl_row_checks(parsed.row, bDates)
          IN  IF ~rowLoads
              THEN /\ DbRaise("LoadingFailedException")
                   /\ bDid' = "timeout"
                   /\ UNCHANGED <<bRow, bDoc>>
              ELSE IF parsed.exc # ""
              THEN /\ DbRaise(parsed.exc)
                   /\ bDid' = "error"
                   /\ UNCHANGED <<bRow, bDoc>>
              ELSE /\ bRow' = parsed.row
                   /\ IF check = "skip"
                      THEN /\ DbContinue
                           /\ bDid' = "skipped"
                           /\ bDoc' = ""
                      ELSE IF check = "return"
                      THEN /\ bPc' = "returned"
                           /\ bExc' = ""
                           /\ bDid' = "stopped"
                           /\ bDoc' = ""
                           /\ UNCHANGED bRowId
                      ELSE /\ bDid' = "scraped"
                           /\ bDoc' = scrape_document(page)
                           /\ IF scrape_document(page) = "InvalidDocumentException"
                              THEN DbContinue
                              ELSE DbRaise(scrape_document(page))
    /\ UNCHANGED <<store, cacheOnly, crawlOnly, ctorOnly, normOnly, parseOnly, reconOnly,
                   driverOnly, rerunOnly, statusOnly, raceOnly, vbsOnly, bDates>>

SpecDb == DbInit /\ [][DbLogin \/ DbRow]_vars

\* ------------------------------------------------------------------ claims

C4_StopAtBoundary ==
    sorted =>
        /\ belowSeen <=> pc = "done"
        /\ startedEmpty =>
              \A i \in 1 .. Len(store.rows) :
                  ParseDate(store.rows[i].creation_date) >= dates.start_date

\* C5: during and after a crawl that started on an empty store, every stored
\* row has status 'AG' and start_date <= creation_date <= end_date.
C5_NoRejectStored ==
    startedEmpty =>
        \A i \in 1 .. Len(store.rows) :
            /\ store.rows[i].status = "AG"
            /\ dates.start_date <= ParseDate(store.rows[i].creation_date)
            /\ ParseDate(store.rows[i].creation_date) <= dates.end_date

C5_Witness ==
    /\ startedEmpty
    /\ lastClass = "reject"
    /\ pc = "scan"
    /\ cur.bound
    /\ cur.row.creation_date > dates.end_date

\* C6: every visited row with status 'AG', start_date <= creation_date <=
\* end_date and a reference_number not yet cached is persisted by cache_row.
C6_AcceptPersisted ==
    lastClass = "accept" =>
        \E i \in 1 .. Len(store.rows) :
            /\ store.rows[i].reference_number = cur.row.reference_number
            /\ ParseDate(store.rows[i].creation_date) = cur.row.creation_date

\* C7: a visited row that cache_row refuses as already cached does not abort
\* the crawl: scanning goes on with the next row or the next page.
C7_SoftSkip ==
    lastClass = "duplicate" => (pc \in {"scan", "load"} /\ exc = "")

\* C8: a wait on the listing that times out ends the crawl with
\* LoadingFailedException: the store is as it was, and afterwards no row is
\* scanned and no page is requested.
C8_TimeoutAborts ==
    [][/\ timedOut' =>
            (pc' = "raised" /\ exc' = "LoadingFailedException" /\ store' = store
               /\ scanned' = scanned)
       /\ timedOut => UNCHANGED <<store, requests, scanned, offset, pc>>]_vars

C8_Witness ==
    /\ timedOut
    /\ pc = "raised"
    /\ exc = "LoadingFailedException"
    /\ scanned >= 1
    /\ Len(store.rows) >= 1

\* C9: Dates construction succeeds for 2024-01-01 .. 2024-01-08 (exactly one
\* week), fails for 2024-01-01 .. 2024-01-09, and fails whenever end_date -
\* start_date exceeds one week.
C9_OneWeek ==
    dResult # "none" =>
        /\ dEnd - dStart > 7 => dResult = "ValidationError"
        /\ (dStart = ParseDate(<<2024, 1, 1>>) /\ dEnd = ParseDate(<<2024, 1, 8>>))
              => dResult = "ok"
        /\ (dStart = ParseDate(<<2024, 1, 1>>) /\ dEnd = ParseDate(<<2024, 1, 9>>))
              => dResult = "ValidationError"

C9_Witness ==
    /\ dResult = "ok"
    /\ dStart = ParseDate(<<2024, 1, 1>>)
    /\ dEnd = ParseDate(<<2024, 1, 8>>)

\* C10: a Dates value a crawl session uses (app.models.scraper.Dates) has
\* start_date and end_date strictly in the past.
C10_DatesInPast ==
    (dModule = "models" /\ dResult = "ok") => (dStart < Today /\ dEnd < Today)

\* C11: the normaliser removes every hyphen and trims the surrounding blanks,
\* so inputs that differ only in hyphens and surrounding blanks get the same
\* key ("AB-12-34 " and "AB1234"), and normalising a normalised value returns
\* it unchanged.
C11_Normalise ==
    /\ nStep >= 1 =>
          /\ \A i \in 1 .. Len(nOut) : nOut[i] # "-"
          /\ nOut # <<>> => (nOut[1] # " " /\ nOut[Len(nOut)] # " ")
          /\ nOutOther = nOut
          /\ nRaw \in { <<"A", "B", "-", "1", "2", "-", "3", "4", " ">>,
                        <<"A", "B", "1", "2", "3", "4">> }
                => nOut = <<"A", "B", "1", "2", "3", "4">>
    /\ nStep = 2 => nAgain = nOut

C11_Witness ==
    /\ nStep = 2
    /\ nRaw = <<"A", "B", "-", "1", "2", "-", "3", "4", " ">>
    /\ nOut = <<"A", "B", "1", "2", "3", "4">>

\* C12: Row.from_array fails with the malformed-row error whenever the array
\* does not have 8 cells or its date cell does not match the pattern; it
\* returns no Row for such input, and a wrong cell count fails with the same
\* error kind as a wrong date format.
C12_MalformedRow ==
    (pResult.done /\ (pArray.n # RowCells \/ pArray.date = 0)) => pResult.exc = "ValueError"

C15_ReferenceNumbers ==
    lastCall.op = "get_reference_numbers"
    => /\ lastRet.kind = "Series"
       /\ lastRet.refs = [i \in 1 .. Len(store.rows) |-> store.rows[i].reference_number]

C20_LclReleased ==
    (/\ rIdx > 0
     /\ ~rIn.errorPage
     /\ rIn.table
     /\ "Released" \in rIn.data
     /\ rIn.fields
     /\ rIn.container_type = "LCL")
    => \E i \in 1 .. Len(emitted) :
          /\ emitted[i].reference_number = rRefs[rIdx]
          /\ emitted[i].release_status = "Released"
          /\ Len(emitted[i].quantity) > Len(PackageLabel)
          /\ SubSeq(emitted[i].quantity,
                    Len(emitted[i].quantity) - Len(PackageLabel) + 1,
                    Len(emitted[i].quantity)) = PackageLabel

\* C21: for an FCL reference whose container number has no ARRIVE event in
\* the event export, the event lookup raises InvalidDocumentException, and the
\* pass then removes the reference from the row cache.
C21_NoArriveRemoved ==
    (/\ rIdx > 0
     /\ ~rIn.errorPage
     /\ rIn.table
     /\ rIn.fields
     /\ rIn.container_type = "FCL"
     /\ get_date_from_container_number(ContainerNumber, rIn.events).exc
            = "InvalidDocumentException")
    => /\ rRaised = "InvalidDocumentException"
       /\ rRefs[rIdx] \in rRemoved
       /\ rRefs[rIdx] \notin KeysOf(store.rows)

\* C22: once a with-block of app.scraper.driver.Driver has been left, normally
\* or by an exception, the browser created in __enter__ has been quit.
C22_DriverQuit ==
    (wModule = "driver" /\ wPc = "out" /\ wUses > 0)
    => wBrowsers[Len(wBrowsers)] = "quit"

C24_RowErrorsCaught ==
    lastClass \in {"reject", "duplicate", "malformed"} => pc # "raised"

\* C25: a failed login is fatal for the crawl session: LoginFailedException
\* leaves crawl_database, the login was attempted exactly once, no listing
\* page is requested afterwards and no row is written to the store.
C25_LoginFatal ==
    (login.done /\ login.loads /\ (login.frmCreate \/ login.incorrectPassword))
    => /\ pc = "raised"
       /\ exc = "LoginFailedException"
       /\ attempts = 1
       /\ requests = 0
       /\ scanned = 0
       /\ store \in CrawlInitStores
       /\ startedEmpty = ~store.exists

C25_Witness ==
    /\ login.done
    /\ login.loads
    /\ ~login.frmCreate
    /\ login.incorrectPassword
    /\ exc = "LoginFailedException"

\* C27: on a newest-first listing with a row older than start_date the crawl
\* reaches DONE by returning normally, whatever the status of that row: once
\* such a row has been read the crawl is over and has not raised.
C27_StopsAtOlderRow ==
    belowSeen => pc = "done"

C29_WalkInOrder ==
    /\ [](pc = "scan" => (rowId \in 15 .. 24 /\ offset = 10 * (requests - 1)))
    /\ [](pc = "load" => offset = 10 * requests)
    /\ [][rowId' # rowId =>
             \/ pc = "scan" /\ rowId' = rowId + 1
             \/ pc = "load" /\ rowId' = 15]_crawlVars
    /\ [][offset' # offset =>
             /\ pc = "scan"
             /\ rowId = 24
             /\ offset' = offset + 10
             /\ pc' = "load"]_crawlVars

C29_Witness ==
    /\ pc = "scan"
    /\ offset = 10
    /\ rowId = 16
    /\ scanned = 11

C30_StatusByMembership ==
    (sResult.done /\ sPage.table)
    => /\ sResult.exc = ""
       /\ sResult.status =
             IF "Released" \in sPage.data \/ "Transferred" \in sPage.data THEN "Released"
             ELSE IF "Approved" \in sPage.data \/ "Auto-Inspected" \in sPage.data
             THEN "Approved"
             ELSE "None"

C33_WellFormedWindow ==
    dResult = "ok" => (dStart <= dEnd /\ dEnd - dStart <= OneWeek)

\* C34: a page wait that times out during download_data reaches the caller as
\* LoadingFailedException: after a timeout download_data has not returned
\* normally, and no export was moved into the save directory.
C34_TimeoutRaises ==
    vTimedOut => (vPc = "raised" /\ vExc = "LoadingFailedException" /\ ~vMoved)

\* C35: wait_for_download always terminates; it returns True only if a poll
\* before the timeout found the file, and False only once the timeout has
\* elapsed with no poll having found it; download_data moves the export only
\* after it returned True.
C35_WaitForDownload ==
    /\ [](/\ vRet = "True" => (vSeenAt >= 0 /\ vSeenAt < DRIVER_DOWNLOAD_TIMEOUT)
          /\ vRet = "False" => (vElapsed >= DRIVER_DOWNLOAD_TIMEOUT /\ vSeenAt = -1)
          /\ vMoved => vRet = "True")
    /\ (vPc = "download") ~> (vRet # "none")

C35_Witness ==
    /\ vRet = "True"
    /\ vSeenAt > 0
    /\ vMoved
    /\ vPc = "returned"

\* C36: Scraper.crawl_database returns at a row only when the creation_date of
\* that row is outside [start_date, end_date]; it never stops at a row dated
\* inside the window.
C36_StopsOutsideOnly ==
    (bDid = "stopped" /\ bDates.start_date <= bDates.end_date)
        => ~(bDates.start_date <= bRow.creation_date
                /\ bRow.creation_date <= bDates.end_date)

\* C37: Scraper.crawl_database calls scrape_document for a row only if the
\* row has status AG and start_date <= creation_date <= end_date.
C37_ScrapesInsideOnly ==
    (bDid = "scraped" /\ bDates.start_date <= bDates.end_date)
        => /\ bRow.status = "AG"
           /\ bDates.start_date <= bRow.creation_date
           /\ bRow.creation_date <= bDates.end_date

====
